---- MODULE Spec2Model ----
(***************************************************************************)
(* Model of src/xFFT.py: the closure state of run_visualizer and the       *)
(* handlers that mutate it (audio_callback on the audio thread; the        *)
(* button, text-box and key handlers on the control thread).               *)
(*                                                                         *)
(* Representation.                                                         *)
(*  - Samples are symbolic: sample i of the loaded file y is identified    *)
(*    by (y.path, i); a chunk y[start:end] is the record                   *)
(*    [path, start, end].                                                  *)
(*  - A block handed to the device or to the buffers is a record           *)
(*    [data, filtered, low, high, axis]: the chunk, whether                *)
(*    apply_bandpass produced it, and if so the cutoffs and the bin axis   *)
(*    the mask was computed from.                                          *)
(*  - time_buffer is a deque of samples; it is kept as a sequence of runs  *)
(*    [blk, from, n]: the n samples blk[from], blk[from+4], ... of one     *)
(*    emitted block, oldest first.                                         *)
(*  - Cutoffs are floats in the source; the files of the model have even   *)
(*    sample rates and the typed texts are whole numbers, so every value   *)
(*    (sr/2 included) is an integer.                                       *)
(*  - A text is <<kind, n>>: <<"int", n>> is the digits of n ("5000"),     *)
(*    <<"dec", n>> is n followed by ".0" ("5000.0", what str() gives for   *)
(*    a float), <<"bad", 0>> is text float() rejects.                      *)
(***************************************************************************)
EXTENDS Integers, Sequences, FiniteSets, TLC

VARIABLES
  y,                \* the loaded samples: [path, len]
  sr,               \* sample rate of the loaded file
  display_samples,  \* sr // 10, computed once at start-up (maxlen of time_buffer)
  freqs,            \* the bin axis rfftfreq(block_size, 1/sr), kept as the rate it
                    \* was built from: freqs[k] = k * freqs / block_size
  time_buffer,
  spectrum_buffer,
  lowcut,
  highcut,
  filter_enabled,
  lowcut_box,       \* text shown in the Low Cut TextBox
  highcut_box,      \* text shown in the High Cut TextBox
  stream,           \* "none" (None) | "active" | "aborted" | "closed"
  paused,
  audio_position,
  outdata,          \* what the last callback invocation of the current stream did
  calls,            \* history: callback invocations since audio_position was set to 0
  edits,            \* history: texts submitted by the user
  loads,            \* history: change_file events
  ev,               \* history: the last handler that ran
  cb,               \* the callback invocation in progress on the audio thread:
                    \* [pc, start, end, bound, blk, reset_seen], pc = "idle" when none
  ctl,              \* where the control thread is: "idle" between handlers,
                    \* "starting" | "loading" | "resetting" inside one, "exited"
  leaked,           \* device streams left open that `stream` no longer refers to
  dev_calls         \* history: the device calls of the last handler, <<call, succeeded>>

vars == <<y, sr, display_samples, freqs, time_buffer, spectrum_buffer, lowcut,
          highcut, filter_enabled, lowcut_box, highcut_box, stream, paused,
          audio_position, outdata, calls, edits, loads, ev, cb, ctl, leaked,
          dev_calls>>

----------------------------------------------------------------------------
\* Program constants

block_size == 2048

spectrum_maxlen == 10

decimation == 4

cut_floor == 20

default_lowcut == 100

default_highcut == 1000

\* stream = sd.OutputStream(..., blocksize=block_size, ...): every callback
\* invocation is asked for block_size frames.
frames == block_size

----------------------------------------------------------------------------
\* Bounds of the model

MaxCalls == 3

MaxEdits == 2

MaxLoads == 1

MaxLeaked == 1

MaxLongCalls == 12

\* A file long enough to fill both rolling buffers: 12 blocks at 8000 Hz
LongFile == [path |-> "long", len |-> 24576, rate |-> 8000]

\* The audio files the user can pick: [path, len, rate].
Files ==
  { [path |-> "a", len |-> 5000, rate |-> 44100],
    [path |-> "b", len |-> 4096, rate |-> 8000],
    [path |-> "c", len |-> 0,    rate |-> 44100] }

NoFile == [path |-> "", len |-> 0, rate |-> 0]

\* The texts the user can type into a cutoff box.
Texts ==
  { <<"int", 5>>, <<"dec", 5000>>, <<"int", 999999>>, <<"bad", 0>> }

NoText == <<"none", 0>>

----------------------------------------------------------------------------
\* Pure helpers

Min(a, b) == IF a <= b THEN a ELSE b

Max(a, b) == IF a >= b THEN a ELSE b

\* A float() that accepts any text (mutant of Parses)
Parses_any(text) == TRUE

\* float(text): raises ValueError on text that is not a number.
Parses(text) == text[1] \in {"int", "dec"}

Float(text) == text[2]

\* str(x) of a cutoff just clamped: max(20, ...) returns the int 20 when the
\* float is not above it ("20"), the float otherwise ("<x>.0").
Str(x) == IF x = cut_floor THEN <<"int", x>> ELSE <<"dec", x>>

\* Clamp without the lower bound (mutant of Clamp)
Clamp_no_floor(x) == Min(sr \div 2, x)

\* max(20, min(sr/2, x)) with the current sr
Clamp(x) == Max(cut_floor, Min(sr \div 2, x))

\* y[start:end]
Chunk(start, end) == [path |-> y.path, start |-> start, end |-> end]

ChunkLen(chunk) == chunk.end - chunk.start

Unfiltered(chunk) ==
  [data |-> chunk, filtered |-> FALSE, low |-> 0, high |-> 0, axis |-> 0]

apply_bandpass(data, lo, hi) ==
  [data |-> data, filtered |-> TRUE, low |-> lo, high |-> hi, axis |-> freqs]

\* The bins apply_bandpass keeps in block b: mask = (freqs >= low) & (freqs <= high)
Bins == 0 .. (block_size \div 2)

Mask(b) ==
  { k \in Bins : k * b.axis >= b.low * block_size /\ k * b.axis <= b.high * block_size }

\* filtered_chunk[::4]
Decimate(blk) ==
  [blk |-> blk, from |-> 0,
   n |-> (ChunkLen(blk.data) + decimation - 1) \div decimation]

\* 20 * log10(|rfft(filtered_chunk * window)| + 1e-9): one value per bin
Spectrum(blk) == [of |-> blk, n |-> ChunkLen(blk.data) \div 2 + 1]

RECURSIVE TimeLen(_)
TimeLen(buf) == IF buf = <<>> THEN 0 ELSE Head(buf).n + TimeLen(Tail(buf))

\* deque(maxlen): drop the k oldest samples
RECURSIVE DropOldest(_, _)
DropOldest(buf, k) ==
  IF k <= 0 \/ buf = <<>> THEN buf
  ELSE IF Head(buf).n <= k THEN DropOldest(Tail(buf), k - Head(buf).n)
  ELSE <<[Head(buf) EXCEPT !.from = @ + decimation * k, !.n = @ - k]>> \o Tail(buf)

\* extend on a deque without maxlen (mutant of Extend)
Extend_unbounded(buf, run) == IF run.n = 0 THEN buf ELSE Append(buf, run)

\* time_buffer.extend(items) on deque(maxlen=display_samples)
Extend(buf, run) ==
  LET all == IF run.n = 0 THEN buf ELSE Append(buf, run)
  IN DropOldest(all, TimeLen(all) - display_samples)

\* spectrum_buffer.append(spectrum) on deque(maxlen=10)
AppendSpectrum(buf, s) ==
  LET all == Append(buf, s)
  IN IF Len(all) > spectrum_maxlen THEN Tail(all) ELSE all

----------------------------------------------------------------------------
\* Cutoff edits.  c is the record [lowcut, highcut, lowcut_box, highcut_box].
\* TextBox.set_val(val) (matplotlib): returns at once when the box already
\* shows str(val); otherwise shows it and runs the box's on_submit handler.

RECURSIVE update_lowcut(_, _), update_highcut(_, _)

set_val_high(c, newval) ==
  IF c.highcut_box = newval THEN c
  ELSE update_highcut([c EXCEPT !.highcut_box = newval], newval)

set_val_low(c, newval) ==
  IF c.lowcut_box = newval THEN c
  ELSE update_lowcut([c EXCEPT !.lowcut_box = newval], newval)

update_lowcut(c, text) ==
  IF ~Parses(text) THEN c
  ELSE LET c1 == [c EXCEPT !.lowcut = Clamp(Float(text))]
       IN IF c1.lowcut > c1.highcut THEN set_val_high(c1, Str(c1.lowcut)) ELSE c1

update_highcut(c, text) ==
  IF ~Parses(text) THEN c
  ELSE LET c1 == [c EXCEPT !.highcut = Clamp(Float(text))]
       IN IF c1.highcut < c1.lowcut THEN set_val_low(c1, Str(c1.highcut)) ELSE c1

Cuts ==
  [lowcut |-> lowcut, highcut |-> highcut,
   lowcut_box |-> lowcut_box, highcut_box |-> highcut_box]

SetCuts(c) ==
  /\ lowcut' = c.lowcut
  /\ highcut' = c.highcut
  /\ lowcut_box' = c.lowcut_box
  /\ highcut_box' = c.highcut_box

Event(op, text, file, ok) ==
  [op |-> op, text |-> text, file |-> file, ok |-> ok, playing |-> ~paused]

NoBlock == Unfiltered([path |-> "", start |-> 0, end |-> 0])

\* No callback invocation is in progress.
IdleCb ==
  [pc |-> "idle", start |-> 0, end |-> 0, bound |-> FALSE, blk |-> NoBlock,
   reset_seen |-> FALSE]

\* A handler that runs to completion and makes no device call
Quiet ==
  /\ dev_calls' = <<>>
  /\ UNCHANGED <<cb, ctl, leaked>>

----------------------------------------------------------------------------
\* State after run_visualizer has loaded a file and built its closure state

Loaded(f) ==
  /\ y = [path |-> f.path, len |-> f.len]
  /\ sr = f.rate
  /\ display_samples = f.rate \div 10
  /\ freqs = f.rate
  /\ time_buffer = <<>>
  /\ spectrum_buffer = <<>>
  /\ lowcut = default_lowcut
  /\ highcut = default_highcut
  /\ filter_enabled = FALSE
  /\ lowcut_box = <<"int", default_lowcut>>
  /\ highcut_box = <<"int", default_highcut>>
  /\ stream = "none"
  /\ paused = TRUE
  /\ audio_position = 0
  /\ outdata = [kind |-> "none"]
  /\ calls = 0
  /\ edits = 0
  /\ loads = 0
  /\ ev = Event("init", NoText, NoFile, TRUE)
  /\ cb = IdleCb
  /\ ctl = "idle"
  /\ leaked = 0
  /\ dev_calls = <<>>

Init == \E f \in Files : Loaded(f)

----------------------------------------------------------------------------
\* audio_callback(outdata, frames, time, status), run by the device stream

Silence(n) == [kind |-> "silence", n |-> n]

Wrote(blk) == [kind |-> "block", blk |-> blk]

\* The callback raised: nothing was assigned to outdata.
Raised == [kind |-> "raised"]

callback(limit) ==
  /\ stream = "active"
  /\ calls < limit
  /\ calls' = calls + 1
  /\ ev' = Event("audio_callback", NoText, NoFile, TRUE)
  /\ IF paused \/ audio_position >= y.len
     THEN /\ outdata' = Silence(frames)
          /\ UNCHANGED <<audio_position, time_buffer, spectrum_buffer, stream>>
     ELSE LET start == audio_position
              end == Min(start + frames, y.len)
              chunk == Chunk(start, end)
          IN IF ChunkLen(chunk) = block_size
             THEN LET filtered_chunk ==
                        IF filter_enabled
                        THEN apply_bandpass(chunk, lowcut, highcut)
                        ELSE Unfiltered(chunk)
                  IN /\ time_buffer' = Extend(time_buffer, Decimate(filtered_chunk))
                     /\ spectrum_buffer' =
                          AppendSpectrum(spectrum_buffer, Spectrum(filtered_chunk))
                     /\ outdata' = Wrote(filtered_chunk)
                     /\ audio_position' = end
                     /\ UNCHANGED stream
             ELSE \* filtered_chunk was never assigned: line 117 raises
                  \* UnboundLocalError before outdata and audio_position
                  \* are written; the device stream aborts on a callback
                  \* exception and nothing tells the closure state.
                  /\ outdata' = Raised
                  /\ stream' = "aborted"
                  /\ UNCHANGED <<audio_position, time_buffer, spectrum_buffer>>
  /\ UNCHANGED <<y, sr, display_samples, freqs, lowcut, highcut, filter_enabled,
                 lowcut_box, highcut_box, paused, edits, loads>>
  /\ Quiet

audio_callback == callback(MaxCalls)

----------------------------------------------------------------------------
\* Control-thread handlers

toggle_filter ==
  /\ filter_enabled' = ~filter_enabled
  /\ ev' = Event("toggle_filter", NoText, NoFile, TRUE)
  /\ UNCHANGED <<y, sr, display_samples, freqs, time_buffer, spectrum_buffer,
                 lowcut, highcut, lowcut_box, highcut_box, stream, paused,
                 audio_position, outdata, calls, edits, loads>>
  /\ Quiet

\* The user submits text in the Low Cut box: lowcut_box.on_submit(update_lowcut)
submit_lowcut(text) ==
  /\ edits < MaxEdits
  /\ edits' = edits + 1
  /\ SetCuts(update_lowcut([Cuts EXCEPT !.lowcut_box = text], text))
  /\ ev' = Event("update_lowcut", text, NoFile, Parses(text))
  /\ UNCHANGED <<y, sr, display_samples, freqs, time_buffer, spectrum_buffer,
                 filter_enabled, stream, paused, audio_position, outdata, calls,
                 loads>>
  /\ Quiet

\* The user submits text in the High Cut box: highcut_box.on_submit(update_highcut)
submit_highcut(text) ==
  /\ edits < MaxEdits
  /\ edits' = edits + 1
  /\ SetCuts(update_highcut([Cuts EXCEPT !.highcut_box = text], text))
  /\ ev' = Event("update_highcut", text, NoFile, Parses(text))
  /\ UNCHANGED <<y, sr, display_samples, freqs, time_buffer, spectrum_buffer,
                 filter_enabled, stream, paused, audio_position, outdata, calls,
                 loads>>
  /\ Quiet

\* Device streams that are open: created and not closed.
OpenStates == {"opened", "active", "aborted", "stopped"}

\* Rebinding `stream` to a new object leaves the old one open if it was.
Rebind == leaked' = leaked + (IF stream \in OpenStates THEN 1 ELSE 0)

StartOutcomes == {"ok", "open_failed", "start_failed"}

\* stream = sd.OutputStream(...); stream.start(); paused = False
\* sd.OutputStream(...) or stream.start() may raise (PortAudioError): the
\* statements after the raising one are not executed.
start_device(o) ==
  /\ o \in StartOutcomes
  /\ IF o = "open_failed"
     THEN /\ dev_calls' = << <<"open", FALSE>> >>
          /\ UNCHANGED <<stream, paused, outdata, leaked>>
     ELSE IF o = "start_failed"
     THEN /\ dev_calls' = << <<"open", TRUE>>, <<"start", FALSE>> >>
          /\ stream' = "opened"
          /\ Rebind
          /\ UNCHANGED <<paused, outdata>>
     ELSE /\ dev_calls' = << <<"open", TRUE>>, <<"start", TRUE>> >>
          /\ stream' = "active"
          /\ Rebind
          /\ paused' = FALSE
          /\ outdata' = [kind |-> "none"]

start_stream == start_device("ok")

StopOutcomes == {"ok", "stop_failed", "close_failed"}

\* A stop_stream in which a failing stop() or close() raises, so that
\* paused = True is not reached (mutant of stop_device)
stop_device_raises(o) ==
  /\ o \in StopOutcomes
  /\ stream' = IF stream \in {"none", "closed"} THEN stream
               ELSE IF o = "ok" THEN "closed"
               ELSE "stopped"
  /\ dev_calls' = IF stream = "none" THEN <<>>
                  ELSE << <<"stop", o # "stop_failed">>,
                          <<"close", o # "close_failed">> >>
  /\ paused' = (paused \/ o = "ok" \/ stream = "none")
  /\ UNCHANGED leaked

\* if stream: stream.stop(); stream.close()
\* paused = True
\* stop() and close() of the audio library ignore the device's error codes
\* (ignore_errors=True), so paused = True is reached whatever they return.
\* A close that fails leaves the stream open; closing a stream whose stop
\* failed still ends it.
stop_device(o) ==
  /\ o \in StopOutcomes
  /\ stream' = IF stream \in {"none", "closed"} THEN stream
               ELSE IF o = "close_failed" THEN "stopped"
               ELSE "closed"
  /\ dev_calls' = IF stream = "none" THEN <<>>
                  ELSE << <<"stop", o # "stop_failed">>,
                          <<"close", o # "close_failed">> >>
  /\ paused' = TRUE
  /\ UNCHANGED leaked

stop_stream == stop_device("ok")

toggle_play ==
  /\ IF paused THEN start_stream ELSE stop_stream /\ UNCHANGED outdata
  /\ ev' = Event("toggle_play", NoText, NoFile, TRUE)
  /\ UNCHANGED <<y, sr, display_samples, freqs, time_buffer, spectrum_buffer,
                 lowcut, highcut, filter_enabled, lowcut_box, highcut_box,
                 audio_position, calls, edits, loads, cb, ctl>>

\* reset that forgets spectrum_buffer.clear() (mutant of reset_state)
reset_state_keeps_spectrum ==
  /\ audio_position' = 0
  /\ time_buffer' = <<>>
  /\ calls' = 0
  /\ UNCHANGED spectrum_buffer

\* audio_position = 0; time_buffer.clear(); spectrum_buffer.clear()
reset_state ==
  /\ audio_position' = 0
  /\ time_buffer' = <<>>
  /\ spectrum_buffer' = <<>>
  /\ calls' = 0

reset ==
  /\ reset_state
  /\ ev' = Event("reset", NoText, NoFile, TRUE)
  /\ UNCHANGED <<y, sr, display_samples, freqs, lowcut, highcut, filter_enabled,
                 lowcut_box, highcut_box, stream, paused, outdata, edits, loads>>
  /\ Quiet

\* A load that forgets reset(None) (mutant of load_file)
load_file_no_reset(f) ==
  /\ y' = [path |-> f.path, len |-> f.len]
  /\ sr' = f.rate
  /\ UNCHANGED <<audio_position, time_buffer, spectrum_buffer, calls>>

\* y, sr = librosa.load(new_path, sr=None); reset(None)
load_file(f) ==
  /\ y' = [path |-> f.path, len |-> f.len]
  /\ sr' = f.rate
  /\ reset_state

\* A failed load that still runs reset(None) (mutant of load_failed)
load_failed_resets ==
  /\ UNCHANGED <<y, sr>>
  /\ reset_state

\* No path chosen, path missing, or librosa.load raised: nothing is assigned.
load_failed ==
  UNCHANGED <<y, sr, audio_position, time_buffer, spectrum_buffer, calls>>

\* change_file(event); picked is the dialog's outcome, NoFile when the load fails
change_file(picked) ==
  /\ loads < MaxLoads
  /\ loads' = loads + 1
  /\ stop_stream
  /\ IF picked \in Files THEN load_file(picked) ELSE load_failed
  /\ ev' = Event("change_file", NoText, picked, picked \in Files)
  /\ UNCHANGED <<display_samples, freqs, lowcut, highcut, filter_enabled,
                 lowcut_box, highcut_box, outdata, edits, cb, ctl>>

Next ==
  \/ audio_callback
  \/ toggle_filter
  \/ \E text \in Texts : submit_lowcut(text)
  \/ \E text \in Texts : submit_highcut(text)
  \/ toggle_play
  \/ reset
  \/ \E picked \in Files \cup {NoFile} : change_file(picked)

Spec == Init /\ [][Next]_vars

----------------------------------------------------------------------------
\* The same handlers with a device whose calls may fail

toggle_play_device(o) ==
  /\ ctl = "idle"
  /\ (paused /\ stream \in OpenStates /\ o # "open_failed") => leaked < MaxLeaked
  /\ IF paused THEN start_device(o) ELSE stop_device(o) /\ UNCHANGED outdata
  /\ ev' = Event("toggle_play", NoText, NoFile, o = "ok")
  /\ UNCHANGED <<y, sr, display_samples, freqs, time_buffer, spectrum_buffer,
                 lowcut, highcut, filter_enabled, lowcut_box, highcut_box,
                 audio_position, calls, edits, loads, cb, ctl>>

change_file_device(picked, o) ==
  /\ ctl = "idle"
  /\ loads < MaxLoads
  /\ loads' = loads + 1
  /\ stop_device(o)
  /\ IF picked \in Files THEN load_file(picked) ELSE load_failed
  /\ ev' = Event("change_file", NoText, picked, picked \in Files)
  /\ UNCHANGED <<display_samples, freqs, lowcut, highcut, filter_enabled,
                 lowcut_box, highcut_box, outdata, edits, cb, ctl>>

\* close_event: lambda e: stop_stream(); the window is gone and no handler
\* runs after it.
close_event(o) ==
  /\ ctl = "idle"
  /\ stop_device(o)
  /\ ctl' = "exited"
  /\ ev' = Event("close_event", NoText, NoFile, TRUE)
  /\ UNCHANGED <<y, sr, display_samples, freqs, time_buffer, spectrum_buffer,
                 lowcut, highcut, filter_enabled, lowcut_box, highcut_box,
                 audio_position, outdata, calls, edits, loads, cb>>

reset_device == ctl = "idle" /\ reset

NextDevice ==
  \/ audio_callback
  \/ \E o \in StartOutcomes \cup StopOutcomes : toggle_play_device(o)
  \/ reset_device
  \/ \E picked \in Files \cup {NoFile} :
       \E o \in StopOutcomes : change_file_device(picked, o)
  \/ \E o \in StopOutcomes : close_event(o)

SpecDevice == Init /\ [][NextDevice]_vars

----------------------------------------------------------------------------
\* Playback of a file longer than both rolling buffers

InitLong == Loaded(LongFile)

long_callback == callback(MaxLongCalls)

NextLong ==
  \/ long_callback
  \/ toggle_filter
  \/ toggle_play

SpecLong == InitLong /\ [][NextLong]_vars

----------------------------------------------------------------------------
\* The callback runs on the device's thread while the handlers run on the
\* GUI thread: the callback and the multi-statement handlers in steps.

controls ==
  <<display_samples, freqs, lowcut, highcut, filter_enabled, lowcut_box,
    highcut_box, edits>>

\* outdata.fill(0); return (mutant: the silent branch also advances)
fill_zero_advances ==
  /\ outdata' = Silence(frames)
  /\ audio_position' = Min(audio_position + frames, y.len)
  /\ UNCHANGED <<time_buffer, spectrum_buffer, stream>>

\* outdata.fill(0); return
fill_zero ==
  /\ outdata' = Silence(frames)
  /\ UNCHANGED <<audio_position, time_buffer, spectrum_buffer, stream>>

\* Lines 99-105: the test, then start, end and chunk are read.
callback_enter ==
  /\ stream = "active"
  /\ cb.pc = "idle"
  /\ calls < MaxCalls
  /\ ev' = Event("callback_enter", NoText, NoFile, TRUE)
  /\ IF paused \/ audio_position >= y.len
     THEN /\ fill_zero
          /\ calls' = calls + 1
          /\ UNCHANGED cb
     ELSE /\ cb' = [IdleCb EXCEPT !.pc = "chunk",
                                  !.start = audio_position,
                                  !.end = Min(audio_position + frames, y.len)]
          /\ UNCHANGED <<audio_position, time_buffer, spectrum_buffer, stream,
                         outdata, calls>>
  /\ dev_calls' = <<>>
  /\ UNCHANGED <<y, sr, controls, paused, loads, ctl, leaked>>

\* Lines 107-115: a full chunk is filtered and appended to both buffers.
callback_process ==
  /\ cb.pc = "chunk"
  /\ ev' = Event("callback_process", NoText, NoFile, TRUE)
  /\ LET chunk == Chunk(cb.start, cb.end)
     IN IF ChunkLen(chunk) = block_size
        THEN LET filtered_chunk ==
                   IF filter_enabled
                   THEN apply_bandpass(chunk, lowcut, highcut)
                   ELSE Unfiltered(chunk)
             IN /\ time_buffer' = Extend(time_buffer, Decimate(filtered_chunk))
                /\ spectrum_buffer' =
                     AppendSpectrum(spectrum_buffer, Spectrum(filtered_chunk))
                /\ cb' = [cb EXCEPT !.pc = "ready", !.bound = TRUE,
                                    !.blk = filtered_chunk]
        ELSE /\ cb' = [cb EXCEPT !.pc = "ready"]
             /\ UNCHANGED <<time_buffer, spectrum_buffer>>
  /\ dev_calls' = <<>>
  /\ UNCHANGED <<y, sr, controls, stream, paused, audio_position, outdata,
                 calls, loads, ctl, leaked>>

\* Lines 117-118: outdata[:] = filtered_chunk...; audio_position = end
callback_write ==
  /\ cb.pc = "ready"
  /\ ev' = Event("callback_write", NoText, NoFile, cb.bound)
  /\ IF cb.bound
     THEN /\ outdata' = Wrote(cb.blk)
          /\ audio_position' = cb.end
          /\ UNCHANGED stream
     ELSE /\ outdata' = Raised
          /\ stream' = "aborted"
          /\ UNCHANGED audio_position
  /\ cb' = IdleCb
  /\ calls' = calls + 1
  /\ dev_calls' = <<>>
  /\ UNCHANGED <<y, sr, controls, time_buffer, spectrum_buffer, paused, loads,
                 ctl, leaked>>

\* A stop() that returns while a callback is still running (mutant of
\* stop_waits)
stop_no_wait == TRUE

\* stream.stop() returns only after the callback in progress has returned,
\* and the device does not invoke the callback again.
stop_waits == cb.pc = "idle"

\* toggle_play -> start_stream up to stream.start(): the stream is running
\* and paused is still True.
play_open ==
  /\ ctl = "idle"
  /\ paused
  /\ stream' = "active"
  /\ Rebind
  /\ dev_calls' = << <<"open", TRUE>>, <<"start", TRUE>> >>
  /\ ctl' = "starting"
  /\ outdata' = [kind |-> "none"]
  /\ ev' = Event("play_open", NoText, NoFile, TRUE)
  /\ UNCHANGED <<y, sr, controls, time_buffer, spectrum_buffer, paused,
                 audio_position, calls, loads, cb>>

\* start_stream, last statement: paused = False
play_done ==
  /\ ctl = "starting"
  /\ paused' = FALSE
  /\ ctl' = "idle"
  /\ dev_calls' = <<>>
  /\ ev' = Event("play_done", NoText, NoFile, TRUE)
  /\ UNCHANGED <<y, sr, controls, time_buffer, spectrum_buffer, stream,
                 audio_position, outdata, calls, loads, cb, leaked>>

\* toggle_play -> stop_stream while playing
pause ==
  /\ ctl = "idle"
  /\ ~paused
  /\ stop_waits
  /\ stop_stream
  /\ ev' = Event("pause", NoText, NoFile, TRUE)
  /\ UNCHANGED <<y, sr, controls, time_buffer, spectrum_buffer,
                 audio_position, outdata, calls, loads, cb, ctl>>

\* reset(event) on the GUI thread, possibly while a callback is running
reset_race ==
  /\ ctl = "idle"
  /\ reset_state
  /\ cb' = [cb EXCEPT !.reset_seen = (cb.pc # "idle")]
  /\ dev_calls' = <<>>
  /\ ev' = Event("reset", NoText, NoFile, TRUE)
  /\ UNCHANGED <<y, sr, controls, stream, paused, outdata, loads, ctl, leaked>>

\* change_file, first statement: stop_stream(); the dialog then opens
change_stop ==
  /\ ctl = "idle"
  /\ loads < MaxLoads
  /\ loads' = loads + 1
  /\ stop_waits
  /\ stop_stream
  /\ ctl' = "loading"
  /\ ev' = Event("change_stop", NoText, NoFile, TRUE)
  /\ UNCHANGED <<y, sr, controls, time_buffer, spectrum_buffer,
                 audio_position, outdata, calls, cb>>

\* change_file: y, sr = librosa.load(new_path, sr=None), or no assignment
change_load(picked) ==
  /\ ctl = "loading"
  /\ IF picked \in Files
     THEN /\ y' = [path |-> picked.path, len |-> picked.len]
          /\ sr' = picked.rate
          /\ ctl' = "resetting"
     ELSE /\ UNCHANGED <<y, sr>>
          /\ ctl' = "idle"
  /\ dev_calls' = <<>>
  /\ ev' = Event("change_load", NoText, picked, picked \in Files)
  /\ UNCHANGED <<controls, time_buffer, spectrum_buffer, stream, paused,
                 audio_position, outdata, calls, loads, cb, leaked>>

\* change_file: reset(None) after a successful load
change_reset ==
  /\ ctl = "resetting"
  /\ reset_state
  /\ ctl' = "idle"
  /\ dev_calls' = <<>>
  /\ ev' = Event("change_reset", NoText, NoFile, TRUE)
  /\ UNCHANGED <<y, sr, controls, stream, paused, outdata, loads, cb, leaked>>

NextRace ==
  \/ callback_enter
  \/ callback_process
  \/ callback_write
  \/ play_open
  \/ play_done
  \/ pause
  \/ reset_race
  \/ change_stop
  \/ \E picked \in Files \cup {NoFile} : change_load(picked)
  \/ change_reset

SpecRace == Init /\ [][NextRace]_vars

----------------------------------------------------------------------------
\* Properties

\* C1 (as claimed): after N callback invocations since audio_position was 0,
\* each asking for `frames` frames, audio_position = min(N * frames, len(y)).
PositionLaw == audio_position = Min(calls * frames, y.len)

\* C2 (as claimed): a callback that finds fewer than block_size samples left
\* while playing writes that short chunk to the device unfiltered and leaves
\* both rolling buffers alone.
ShortChunkWrittenUnfiltered ==
  [][ ( /\ audio_callback
        /\ ~paused
        /\ 0 < y.len - audio_position
        /\ y.len - audio_position < block_size )
      => ( /\ outdata' = Wrote(Unfiltered(Chunk(audio_position, y.len)))
           /\ UNCHANGED <<time_buffer, spectrum_buffer>> ) ]_vars

\* C3 (as claimed): in every reachable state 20 <= low <= high <= sr/2, sr
\* being the rate of the file now loaded.
FilterConfigInvariant ==
  /\ cut_floor <= lowcut
  /\ lowcut <= highcut
  /\ 2 * highcut <= sr

\* C4 (as claimed): in every reachable state len(time_buffer) <= sr/10 of the
\* file now loaded and len(spectrum_buffer) <= 10.
BufferBound ==
  /\ 10 * TimeLen(time_buffer) <= sr
  /\ Len(spectrum_buffer) <= spectrum_maxlen

\* C5 (as claimed): once a callback invocation has raised, the controller is
\* Stopped (paused is true); it is never left Playing.
CallbackErrorStopsController == outdata.kind = "raised" => paused

\* C6: reset, in either state, sets audio_position to 0, empties both rolling
\* buffers and leaves paused and the device stream as they were.
ResetEffect ==
  [][ ev'.op = "reset"
      => ( /\ audio_position' = 0
           /\ time_buffer' = <<>>
           /\ spectrum_buffer' = <<>>
           /\ paused' = paused
           /\ stream' = stream ) ]_vars

\* C6 witness: reset has just run while playing, after a callback emitted a block.
ResetWhilePlayingSeen ==
  /\ ev.op = "reset"
  /\ ev.playing
  /\ ~paused
  /\ outdata.kind = "block"
  /\ audio_position = 0
  /\ time_buffer = <<>>

FilterConfig == <<filter_enabled, lowcut, highcut>>

\* C7 (as claimed): change_file while playing leaves the controller Stopped,
\* both rolling buffers empty and the filter configuration as it was.
ChangeSourceWhilePlaying ==
  [][ (ev'.op = "change_file" /\ ~paused)
      => ( /\ paused'
           /\ stream' # "active"
           /\ time_buffer' = <<>>
           /\ spectrum_buffer' = <<>>
           /\ FilterConfig' = FilterConfig ) ]_vars

\* C7 (amended): change_file while playing whose load succeeds leaves the
\* controller Stopped, both rolling buffers empty and the filter configuration
\* as it was.
ChangeSourceLoadedWhilePlaying ==
  [][ (ev'.op = "change_file" /\ ev'.ok /\ ~paused)
      => ( /\ paused'
           /\ stream' # "active"
           /\ time_buffer' = <<>>
           /\ spectrum_buffer' = <<>>
           /\ FilterConfig' = FilterConfig ) ]_vars

\* C7 witness: a file has just been loaded by change_file during playback that
\* had emitted a block, with the filter on and an edited high cutoff.
ChangeSourceLoadedSeen ==
  /\ ev.op = "change_file"
  /\ ev.ok
  /\ ev.playing
  /\ outdata.kind = "block"
  /\ filter_enabled
  /\ highcut # default_highcut
  /\ paused

\* C8: a change_file whose load fails leaves the samples, the sample rate,
\* audio_position, both rolling buffers and the filter configuration unchanged.
FailedLoadKeepsState ==
  [][ (ev'.op = "change_file" /\ ~ev'.ok)
      => UNCHANGED <<y, sr, audio_position, time_buffer, spectrum_buffer,
                     filter_enabled, lowcut, highcut>> ]_vars

\* C8 witness: a load has just failed during playback with samples consumed
\* and both buffers holding data.
FailedLoadSeen ==
  /\ ev.op = "change_file"
  /\ ~ev.ok
  /\ ev.playing
  /\ audio_position > 0
  /\ time_buffer # <<>>
  /\ spectrum_buffer # <<>>

\* The clamp of the spec, by cases: below 20 gives 20, above sr/2 gives sr/2.
Clamped(v) == IF v < 20 THEN 20 ELSE IF 2 * v > sr THEN sr \div 2 ELSE v

\* C9: a numeric text v submitted as low cut leaves low = clamp(v), and
\* submitted as high cut leaves high = clamp(v); with sr = 44100, "5" gives
\* low = 20 and "999999" gives high = 22050.
ClampLaw ==
  [][ /\ (ev'.op = "update_lowcut" /\ ev'.ok)
         => lowcut' = Clamped(Float(ev'.text))
      /\ (ev'.op = "update_highcut" /\ ev'.ok)
         => highcut' = Clamped(Float(ev'.text))
      /\ (ev'.op = "update_lowcut" /\ ev'.text = <<"int", 5>> /\ sr = 44100)
         => lowcut' = 20
      /\ (ev'.op = "update_highcut" /\ ev'.text = <<"int", 999999>> /\ sr = 44100)
         => highcut' = 22050 ]_vars

\* C9 witness: at 44100 Hz, "999999" has just been submitted as high cut after
\* "5" was submitted as low cut.
ClampLawSeen ==
  /\ ev.op = "update_highcut"
  /\ ev.text = <<"int", 999999>>
  /\ lowcut_box = <<"int", 5>>
  /\ sr = 44100
  /\ highcut = 22050
  /\ lowcut = 20

\* C10 (as claimed): when an edit's clamped value crosses the other bound,
\* both bounds end equal to the clamped value.
OrderingSnap ==
  [][ /\ ( /\ ev'.op = "update_lowcut"
           /\ ev'.ok
           /\ Clamped(Float(ev'.text)) > highcut )
         => (lowcut' = Clamped(Float(ev'.text)) /\ highcut' = lowcut')
      /\ ( /\ ev'.op = "update_highcut"
           /\ ev'.ok
           /\ Clamped(Float(ev'.text)) < lowcut )
         => (highcut' = Clamped(Float(ev'.text)) /\ lowcut' = highcut') ]_vars

\* C11: a cutoff text that is not a number changes nothing: low, high, the
\* enabled flag, audio_position, the playing state and both rolling buffers
\* keep their values.
BadTextIgnored ==
  [][ ( /\ ev'.op \in {"update_lowcut", "update_highcut"}
        /\ ev'.text[1] = "bad" )
      => UNCHANGED <<lowcut, highcut, filter_enabled, audio_position, paused,
                     stream, time_buffer, spectrum_buffer>> ]_vars

\* C11 witness: text that is not a number has just been submitted as low cut
\* during playback, after an earlier edit had moved low off its default.
BadTextSeen ==
  /\ ev.op = "update_lowcut"
  /\ ev.text[1] = "bad"
  /\ lowcut # default_lowcut
  /\ ~paused
  /\ time_buffer # <<>>

Failed(dcalls, name) == \E i \in DOMAIN dcalls : dcalls[i] = <<name, FALSE>>

Count(dcalls, name) == Cardinality({i \in DOMAIN dcalls : dcalls[i][1] = name})

\* C12: when opening or starting the device stream fails during Play the
\* controller stays Stopped; when stopping or closing it fails during Pause
\* or ChangeSource the controller ends Stopped; the failed call is made once,
\* never repeated.
StreamFailureLeavesStopped ==
  [][ /\ ( /\ ev'.op = "toggle_play"
           /\ paused
           /\ (Failed(dev_calls', "open") \/ Failed(dev_calls', "start")) )
         => ( /\ paused'
              /\ stream' # "active"
              /\ Count(dev_calls', "open") = 1
              /\ Count(dev_calls', "start") <= 1 )
      /\ ( /\ ev'.op \in {"toggle_play", "change_file"}
           /\ (Failed(dev_calls', "stop") \/ Failed(dev_calls', "close")) )
         => ( /\ paused'
              /\ stream' # "active"
              /\ Count(dev_calls', "stop") = 1
              /\ Count(dev_calls', "close") = 1 ) ]_vars

\* C12 witness: a Pause whose stop() failed has just run during playback, in
\* a run where an earlier Play had failed at stream.start().
StreamFailureSeen ==
  /\ ev.op = "toggle_play"
  /\ ev.playing
  /\ Failed(dev_calls, "stop")
  /\ leaked = 1
  /\ paused

CallbackSteps == {"callback_enter", "callback_process", "callback_write"}

\* C13: once Pause or the stop step of ChangeSource has returned, no step of
\* audio_callback runs until the next Play: every callback step starts from a
\* state whose stream is running, that is not stopped and idle, and that is
\* not between the stop step of ChangeSource and the end of its reset (the
\* only states with the new source and the old position and buffers).
NoCallbackAfterStop ==
  [][ ev'.op \in CallbackSteps
      => ( /\ stream = "active"
           /\ ~(paused /\ ctl = "idle")
           /\ ctl \notin {"loading", "resetting"} ) ]_vars

\* C13 witness: ChangeSource has stopped the stream during playback, after
\* callbacks had advanced the position, and the dialog is open.
StoppedForChangeSeen ==
  /\ ev.op = "change_stop"
  /\ ev.playing
  /\ ctl = "loading"
  /\ audio_position > 0
  /\ time_buffer # <<>>
  /\ stream = "closed"

StartCalls == << <<"open", TRUE>>, <<"start", TRUE>> >>

StopCalls == << <<"stop", TRUE>>, <<"close", TRUE>> >>

\* C14: the controller starts Stopped; Play from Stopped opens and starts a
\* stream and gives Playing; a stop from Playing stops and closes it and
\* gives Stopped; a stop requested while already Stopped (ChangeSource on a
\* stopped controller) changes no state and makes no device call.
PlaybackStateMachine ==
  /\ <<paused, stream>> = <<TRUE, "none">>
  /\ [][ /\ (ev'.op = "toggle_play" /\ paused)
            => (~paused' /\ stream' = "active" /\ dev_calls' = StartCalls)
         /\ (ev'.op \in {"toggle_play", "change_file"} /\ ~paused)
            => (paused' /\ stream' # "active" /\ dev_calls' = StopCalls)
         /\ (ev'.op = "change_file" /\ paused)
            => (paused' /\ stream' = stream /\ dev_calls' = <<>>) ]_vars

\* C15: in every state between handlers, 0 <= audio_position <= len(y) for
\* the source currently loaded.
PositionWithinSource ==
  /\ 0 <= audio_position
  /\ audio_position <= y.len

\* C15 witness: after a ChangeSource, playback has reached exactly the end of
\* the new, non-empty source.
PositionAtEndSeen ==
  /\ loads = 1
  /\ y.len > 0
  /\ audio_position = y.len
  /\ outdata.kind = "block"

\* C16: every filtered block keeps bin k iff
\* lowcut <= k * sr / block_size <= highcut, with sr the sample rate of the
\* source loaded when the callback runs and the cutoffs of that call.
MaskOfCurrentSource ==
  [][ ( /\ ev'.op = "audio_callback"
        /\ outdata'.kind = "block"
        /\ outdata'.blk.filtered )
      => ( /\ outdata'.blk.low = lowcut
           /\ outdata'.blk.high = highcut
           /\ Mask(outdata'.blk) =
                { k \in Bins : /\ lowcut * block_size <= k * sr
                               /\ k * sr <= highcut * block_size } ) ]_vars

\* C17: a callback invoked while paused is true, or with the position at or
\* past the end of the samples (an empty source included), fills the block of
\* the requested length with zeros, leaves audio_position, time_buffer and
\* spectrum_buffer as they were, and returns without an error.
SilentCallback ==
  [][ ( /\ ev'.op = "callback_enter"
        /\ (paused \/ audio_position >= y.len) )
      => ( /\ outdata' = Silence(frames)
           /\ UNCHANGED <<audio_position, time_buffer, spectrum_buffer>>
           /\ stream' = stream
           /\ cb' = IdleCb ) ]_vars

\* C17 witness: the device called back between stream.start() and
\* paused = False, with samples still left to play after earlier playback.
SilentWhilePausedSeen ==
  /\ ev.op = "callback_enter"
  /\ outdata.kind = "silence"
  /\ paused
  /\ ctl = "starting"
  /\ 0 < audio_position
  /\ audio_position < y.len

\* The i-th oldest sample held in a time buffer, as <<block, index in block>>
RECURSIVE Sample(_, _)
Sample(buf, i) ==
  IF i <= Head(buf).n
  THEN <<Head(buf).blk, Head(buf).from + decimation * (i - 1)>>
  ELSE Sample(Tail(buf), i - Head(buf).n)

\* C18: a callback that consumes a full chunk appends samples 0, 4, 8, ... of
\* the emitted block (block_size / 4 of them, in order) to time_buffer and
\* one spectrum of block_size / 2 + 1 values to spectrum_buffer; each buffer
\* then holds the most recent entries, up to its capacity, in insertion
\* order, and every spectrum held has block_size / 2 + 1 values.
RollingBuffers ==
  [][ (ev'.op = "audio_callback" /\ outdata'.kind = "block")
      => LET blk == outdata'.blk
             had == TimeLen(time_buffer)
             total == had + block_size \div 4
             keep == Min(total, display_samples)
             Pushed(i) == IF i <= had THEN Sample(time_buffer, i)
                          ELSE <<blk, 4 * (i - had - 1)>>
             all == Append(spectrum_buffer,
                           [of |-> blk, n |-> block_size \div 2 + 1])
             kept == Min(Len(all), spectrum_maxlen)
         IN /\ ChunkLen(blk.data) = block_size
            /\ TimeLen(time_buffer') = keep
            /\ \A i \in 1 .. keep :
                 Sample(time_buffer', i) = Pushed(total - keep + i)
            /\ spectrum_buffer' = SubSeq(all, Len(all) - kept + 1, Len(all))
            /\ \A i \in DOMAIN spectrum_buffer' :
                 spectrum_buffer'[i].n = block_size \div 2 + 1 ]_vars

\* C18 witness: twelve full blocks were played, the two oldest spectra and
\* all but the newest display_samples samples have been evicted.
BuffersEvictedSeen ==
  /\ ev.op = "audio_callback"
  /\ outdata.kind = "block"
  /\ Len(spectrum_buffer) = spectrum_maxlen
  /\ spectrum_buffer[1].of.data.start = 2 * block_size
  /\ TimeLen(time_buffer) = display_samples
  /\ Len(time_buffer) = 2

\* C19: when reset ran while a callback had read audio_position and not yet
\* written it back, the position after the callback's write is 0 or the
\* number of frames that one callback consumed.
ResetNotLost ==
  [][ ( /\ ev'.op = "callback_write"
        /\ cb.reset_seen
        /\ cb.bound )
      => audio_position' \in {0, cb.end - cb.start} ]_vars

\* C20: at most one device stream is open, no stream is left open when
\* start_stream creates the next one, and paused is false only while the
\* stream created by start_stream is started and not yet stopped.
OneStreamPausedAgrees ==
  /\ leaked + (IF stream \in OpenStates THEN 1 ELSE 0) <= 1
  /\ leaked = 0
  /\ ~paused => stream = "active"

====
